---- MODULE Spec2Model ----
\* Model of postforward (src/postforward.go): a Postfix pipe filter that reads
\* one message on standard input, looks its return path up in an SRS table,
\* rewrites the header prefix it has captured and pipes the result to sendmail.
\*
\* Bytes are one-character strings; "CR" and "LF" stand for the bytes 0x0D and
\* 0x0A.  A Go string or []byte is a sequence of bytes.
EXTENDS Integers, Sequences, FiniteSets, TLC

VARIABLES
    stdin,          \* every byte standard input will ever supply
    consumed,       \* number of bytes of stdin read so far (by anyone)
    dryRun,         \* the --dry-run flag
    pc,             \* position of main
    buffer,         \* main's buffer: what the TeeReader captured
    message,        \* mail.Message header: sequence of <<key, value>>
    returnPath,     \* main's returnPath
    fromName,       \* main's fromName
    extraHeaders,   \* main's extraHeaders = headerRewriter's headers
    reader,         \* headerRewriter: bytes of `in` not yet read
    hrBuffer,       \* headerRewriter: its local buffer (the result)
    linenum,        \* headerRewriter: linenum
    hdrEmitted,     \* history: the header loop of lines 94-97 has run
    lookup,         \* history: keys sent to the SRS service, in order
    hostnameCalls,  \* history: number of getHostname calls
    stderr,         \* diagnostic stream: sequence of message kinds
    stdout,         \* bytes main itself printed (dry run)
    sendmailArgs,   \* argument lists of the sendmail invocations, in order
    sendmailStdin,  \* bytes the sendmail process received on its stdin
    sendmailExit,   \* history: how the sendmail process ended, if it ran
    readError,      \* history: a read of stdin failed with an error not EOF
    exitCode        \* process exit status, -1 while running

vars == <<stdin, consumed, dryRun, pc, buffer, message, returnPath, fromName,
          extraHeaders, reader, hrBuffer, linenum, hdrEmitted, lookup,
          hostnameCalls, stderr, stdout, sendmailArgs, sendmailStdin,
          sendmailExit, readError, exitCode>>

mainVars == <<stdin, consumed, dryRun, message, returnPath, fromName, lookup,
              hostnameCalls, stderr, stdout, sendmailArgs, sendmailStdin,
              sendmailExit, readError, exitCode>>

----------------------------------------------------------------------------
\* Bounds of the model.

\* Largest number of lines of an input handed to headerRewriter directly.
MaxLines == 3

----------------------------------------------------------------------------
\* Byte strings.

CR == "CR"
LF == "LF"
CRLF == <<CR, LF>>

ExDataErr == 65
ExTempFail == 75

\* bytes.HasPrefix / bytes.HasSuffix
HasPrefix(s, p) == Len(s) >= Len(p) /\ SubSeq(s, 1, Len(p)) = p
HasSuffix(s, p) ==
    Len(s) >= Len(p) /\ SubSeq(s, Len(s) - Len(p) + 1, Len(s)) = p

\* Index of the first LF of s, 0 when there is none (the delimiter search of
\* bufio.Reader.ReadBytes('\n')).
IndexLF(s) ==
    IF \E i \in 1..Len(s) : s[i] = LF
    THEN CHOOSE i \in 1..Len(s) : s[i] = LF /\ \A j \in 1..(i - 1) : s[j] # LF
    ELSE 0

\* The literal of line 99 and the literal of line 104.
EnvelopePrefix == <<"F", "r", "o", "m", " ">>
FromPrefix == <<"F", "r", "o", "m", ":", " ">>

----------------------------------------------------------------------------
\* guessLineEnding and headerRewriter.

guessLineEndingAlwaysLF(line) == <<LF>>

guessLineEnding(line) ==
    IF HasSuffix(line, CRLF) THEN CRLF ELSE <<LF>>

\* The loop of lines 94-97: every header followed by lineEnding.
RECURSIVE WriteHeaders(_, _, _)
WriteHeaders(buf, headers, lineEnding) ==
    IF headers = <<>> THEN buf
    ELSE WriteHeaders(buf \o Head(headers) \o lineEnding, Tail(headers),
                      lineEnding)

\* Lines 99-106: the two `continue`s.  n is linenum after the increment.
SkipLine(n, line) ==
    \/ n = 1 /\ HasPrefix(line, EnvelopePrefix)
    \/ HasPrefix(line, FromPrefix)

\* Lines 92-107 for a line read without error: the new content of the local
\* buffer.
AfterLine(buf, n, line, headers) ==
    LET withHeaders ==
            IF n = 1 THEN WriteHeaders(buf, headers, guessLineEnding(line))
            ELSE buf
    IN  IF SkipLine(n, line) THEN withHeaders ELSE withHeaders \o line

\* Lines 84-88: ReadBytes met io.EOF; `line` is what was left of the input.
AfterEOF(buf, n, line, headers) == buf \o line

\* One iteration of the loop whose ReadBytes finds a '\n' (lines 82-108).
RewriteLine ==
    /\ pc = "rewrite"
    /\ IndexLF(reader) > 0
    /\ LET i == IndexLF(reader)
           line == SubSeq(reader, 1, i)
       IN  /\ linenum' = linenum + 1
           /\ reader' = SubSeq(reader, i + 1, Len(reader))
           /\ hrBuffer' = AfterLine(hrBuffer, linenum + 1, line, extraHeaders)
           /\ hdrEmitted' = (hdrEmitted \/ linenum + 1 = 1)
    /\ UNCHANGED <<pc, buffer, extraHeaders>>
    /\ UNCHANGED mainVars

\* The iteration whose ReadBytes returns io.EOF (lines 82-88): the rest of the
\* input is written and headerRewriter returns.  A bytes.Buffer fails with no
\* other error, so line 89 is never reached.
RewriteEOF ==
    /\ pc = "rewrite"
    /\ IndexLF(reader) = 0
    /\ linenum' = linenum + 1
    /\ reader' = <<>>
    /\ hrBuffer' = AfterEOF(hrBuffer, linenum + 1, reader, extraHeaders)
    /\ pc' = "dispatch"
    /\ UNCHANGED <<buffer, extraHeaders, hdrEmitted>>
    /\ UNCHANGED mainVars

----------------------------------------------------------------------------
\* Inputs.

\* Contents of the lines the inputs are built from.
EnvelopeLine == <<"F", "r", "o", "m", " ", "x", " ", "1", ":", "0">>
FromLine == <<"F", "r", "o", "m", ":", " ", "A">>
FromNoSpaceLine == <<"F", "r", "o", "m", ":", "A">>
FromLowerLine == <<"f", "r", "o", "m", ":", " ", "a">>
SubjectLine == <<"S", ":", " ", "h">>

LineContents ==
    {EnvelopeLine, FromLine, FromNoSpaceLine, FromLowerLine, SubjectLine, <<>>}

Terminators == {<<LF>>, CRLF}

TerminatedLines == {c \o t : c \in LineContents, t \in Terminators}

\* All inputs of exactly n terminated lines.
RECURSIVE TerminatedInputs(_)
TerminatedInputs(n) ==
    IF n = 0 THEN {<<>>}
    ELSE {l \o r : l \in TerminatedLines, r \in TerminatedInputs(n - 1)}

\* All inputs of at most n lines; the last line may lack its terminator.
InputsUpTo(n) ==
    UNION {TerminatedInputs(k) : k \in 0..n}
    \cup UNION {{p \o c : p \in TerminatedInputs(k),
                          c \in LineContents \ {<<>>}} : k \in 0..(n - 1)}

Hostname == <<"h">>
Timestamp == <<"t">>

\* fmt.Sprintf of lines 170-172.
ReceivedHeader(host, time) ==
    <<"R", "e", "c", "e", "i", "v", "e", "d", ":", " ", "b", "y", " ">>
    \o host
    \o <<" ", "(", "P", "o", "s", "t", "f", "o", "r", "w", "a", "r", "d", ")",
         ";", " ">>
    \o time

OriginalReturnPathHeader(rp) ==
    <<"X", "-", "O", "r", "i", "g", "i", "n", "a", "l", "-", "R", "e", "t",
      "u", "r", "n", "-", "P", "a", "t", "h", ":", " ">> \o rp

\* Header lists handed to headerRewriter when it is exercised on its own.
HeaderLists ==
    { <<>>,
      <<ReceivedHeader(Hostname, Timestamp)>>,
      <<ReceivedHeader(Hostname, Timestamp),
        OriginalReturnPathHeader(<<"<", "x", ">">>)>> }

----------------------------------------------------------------------------
\* mail.ReadMessage (line 152), as far as the inputs of this model exercise
\* it: no line begins with white space, so there are no continuation lines.

StripEOL(line) ==
    LET a == IF HasSuffix(line, <<LF>>) THEN SubSeq(line, 1, Len(line) - 1)
             ELSE line
    IN  IF HasSuffix(a, <<CR>>) THEN SubSeq(a, 1, Len(a) - 1) ELSE a

RECURSIVE TrimLeft(_)
TrimLeft(s) == IF s # <<>> /\ Head(s) = " " THEN TrimLeft(Tail(s)) ELSE s

RECURSIVE TrimRight(_)
TrimRight(s) ==
    IF s # <<>> /\ s[Len(s)] = " " THEN TrimRight(SubSeq(s, 1, Len(s) - 1))
    ELSE s

IndexColon(s) ==
    IF \E i \in 1..Len(s) : s[i] = ":"
    THEN CHOOSE i \in 1..Len(s) : s[i] = ":" /\ \A j \in 1..(i - 1) : s[j] # ":"
    ELSE 0

LowerLetters == <<"a", "e", "f", "h", "m", "n", "o", "p", "r", "s", "t", "u", "x">>
UpperLetters == <<"A", "E", "F", "H", "M", "N", "O", "P", "R", "S", "T", "U", "X">>

ToUpper(c) ==
    IF \E i \in 1..Len(LowerLetters) : LowerLetters[i] = c
    THEN UpperLetters[CHOOSE i \in 1..Len(LowerLetters) : LowerLetters[i] = c]
    ELSE c

ToLower(c) ==
    IF \E i \in 1..Len(UpperLetters) : UpperLetters[i] = c
    THEN LowerLetters[CHOOSE i \in 1..Len(UpperLetters) : UpperLetters[i] = c]
    ELSE c

\* Bytes of the model's alphabet that are no header field-name bytes.
NonTokenBytes == {"<", ">", "(", ")", ";", ":", CR, LF}

\* textproto's canonical form of a key: a key with a space is left as it is.
CanonicalKey(k) ==
    IF \E i \in 1..Len(k) : k[i] = " " THEN k
    ELSE [i \in 1..Len(k) |->
             IF i = 1 \/ k[i - 1] = "-" THEN ToUpper(k[i]) ELSE ToLower(k[i])]

\* ReadMIMEHeader over the lines ls, hdr being the header read so far and used
\* the number of lines read so far.
RECURSIVE ReadMIMEHeader(_, _, _)
ReadMIMEHeader(ls, hdr, used) ==
    IF ls = <<>> THEN [ok |-> hdr # <<>>, header |-> hdr, used |-> used]
    ELSE LET kv == TrimRight(StripEOL(Head(ls)))
             c == IndexColon(kv)
             k == SubSeq(kv, 1, c - 1)
             v == TrimLeft(SubSeq(kv, c + 1, Len(kv)))
         IN  IF StripEOL(Head(ls)) = <<>>
             THEN [ok |-> TRUE, header |-> hdr, used |-> used + 1]
             ELSE IF c = 0 \/ \E i \in 1..Len(k) : k[i] \in NonTokenBytes
             THEN [ok |-> FALSE, header |-> hdr, used |-> used + 1]
             ELSE IF k = <<>>
             THEN ReadMIMEHeader(Tail(ls), hdr, used + 1)
             ELSE ReadMIMEHeader(Tail(ls),
                                 Append(hdr, <<CanonicalKey(k), v>>),
                                 used + 1)

\* The lines of s, each with its terminator (the last may have none).
RECURSIVE SplitLines(_)
SplitLines(s) ==
    IF s = <<>> THEN <<>>
    ELSE LET i == IndexLF(s)
         IN  IF i = 0 THEN <<s>>
             ELSE <<SubSeq(s, 1, i)>> \o SplitLines(SubSeq(s, i + 1, Len(s)))

ReadMessage(s) == ReadMIMEHeader(SplitLines(s), <<>>, 0)

RECURSIVE TotalLen(_, _)
TotalLen(ls, n) == IF n = 0 THEN 0 ELSE Len(Head(ls)) + TotalLen(Tail(ls), n - 1)

\* Number of bytes of s up to the end of the last line the parser reads.
HeaderEnd(s) == TotalLen(SplitLines(s), ReadMessage(s).used)

\* mail.Header.Get: the first value stored under the canonical key, or "".
Get(hdr, key) ==
    IF \E i \in 1..Len(hdr) : hdr[i][1] = CanonicalKey(key)
    THEN hdr[CHOOSE i \in 1..Len(hdr) :
                 /\ hdr[i][1] = CanonicalKey(key)
                 /\ \A j \in 1..(i - 1) : hdr[j][1] # CanonicalKey(key)][2]
    ELSE <<>>

----------------------------------------------------------------------------
\* Flags (lines 29-33) and the other inputs of a run.

rpHeader == <<"R", "e", "t", "u", "r", "n", "-", "P", "a", "t", "h">>

\* flag.Args(): the recipients Postfix passes.
FlagArgs == << <<"r">> >>

\* What the SRS service can answer: no connection, a failed write, a failed or
\* malformed read, or a line "code msg".
ReplyCodes == {200, 500, 404}
ReplyMsgs == {<<"y">>, <<>>}

Replies ==
    {[kind |-> k, code |-> 0, msg |-> <<>>] : k \in {"dial", "cmd", "read"}}
    \cup {[kind |-> "line", code |-> c, msg |-> m] :
              c \in ReplyCodes, m \in ReplyMsgs}

\* lookupTCP (lines 37-63) given the service's reply: the returned value, the
\* returned error and the lines written to stderr.
lookupTCPSoftMissReturnsMsg(key, reply) ==
    IF reply.kind # "line"
    THEN [value |-> <<>>, err |-> reply.kind, warn |-> <<>>]
    ELSE IF reply.code = 200
    THEN [value |-> reply.msg, err |-> "nil", warn |-> <<>>]
    ELSE IF reply.code = 500
    THEN [value |-> reply.msg, err |-> "nil", warn |-> <<"warning: srs">>]
    ELSE [value |-> <<>>,
          err |-> <<"srs: unexpected returncode", reply.code, reply.msg>>,
          warn |-> <<>>]

lookupTCPAnyCodeSucceeds(key, reply) ==
    IF reply.kind # "line"
    THEN [value |-> <<>>, err |-> reply.kind, warn |-> <<>>]
    ELSE IF reply.code = 500
    THEN [value |-> key, err |-> "nil", warn |-> <<"warning: srs">>]
    ELSE [value |-> reply.msg, err |-> "nil", warn |-> <<>>]

lookupTCP(key, reply) ==
    IF reply.kind # "line"
    THEN [value |-> <<>>, err |-> reply.kind, warn |-> <<>>]
    ELSE IF reply.code = 200
    THEN [value |-> reply.msg, err |-> "nil", warn |-> <<>>]
    ELSE IF reply.code = 500
    THEN [value |-> key, err |-> "nil", warn |-> <<"warning: srs">>]
    ELSE [value |-> <<>>,
          err |-> <<"srs: unexpected returncode", reply.code, reply.msg>>,
          warn |-> <<>>]

----------------------------------------------------------------------------
\* main.

\* die (lines 66-69).
die(msg, code) ==
    /\ stderr' = Append(stderr, msg)
    /\ exitCode' = code
    /\ pc' = "exit"

rewriterVars == <<reader, hrBuffer, linenum, hdrEmitted>>

\* Lines 151-155, the input being read without failure.  The parser's bufio
\* reader fills itself with whatever each read of stdin returns, so the tee
\* has captured the header and any number n of the bytes that follow it.
Capture ==
    /\ pc = "start"
    /\ \E n \in HeaderEnd(stdin)..Len(stdin) :
           /\ buffer' = SubSeq(stdin, 1, n)
           /\ consumed' = n
    /\ IF ReadMessage(stdin).ok
       THEN /\ message' = ReadMessage(stdin).header
            /\ pc' = "extract"
            /\ UNCHANGED <<stderr, exitCode>>
       ELSE /\ die("Parse error", ExDataErr)
            /\ UNCHANGED message
    /\ UNCHANGED <<stdin, dryRun, returnPath, fromName, extraHeaders, lookup,
                   hostnameCalls, stdout, sendmailArgs, sendmailStdin,
                   sendmailExit, readError>>
    /\ UNCHANGED rewriterVars

\* Lines 151-155, a read of stdin failing before the header is complete:
\* ReadMessage returns the error.
CaptureReadError ==
    /\ pc = "start"
    /\ \E n \in 0..(HeaderEnd(stdin) - 1) :
           /\ buffer' = SubSeq(stdin, 1, n)
           /\ consumed' = n
    /\ readError' = TRUE
    /\ die("Parse error", ExDataErr)
    /\ UNCHANGED <<stdin, dryRun, message, returnPath, fromName, extraHeaders,
                   lookup, hostnameCalls, stdout, sendmailArgs, sendmailStdin,
                   sendmailExit>>
    /\ UNCHANGED rewriterVars

\* Line 158: the test that decides whether main dies at line 159.
MissingReturnPathNeverDies(rp) == FALSE

MissingReturnPath(rp) == rp = <<>>

\* Lines 157-167.
Extract ==
    /\ pc = "extract"
    /\ returnPath' = Get(message, rpHeader)
    /\ IF MissingReturnPath(Get(message, rpHeader))
       THEN /\ die("Parse error: Missing return-path header in message",
                   ExDataErr)
            /\ UNCHANGED fromName
       ELSE /\ fromName' =
                   IF Get(message, <<"F", "r", "o", "m">>) = <<>>
                   THEN <<"u", "n", "k", "n", "o", "w", "n", " ", "(", "f",
                          "o", "r", "w", "a", "r", "d", "e", "d", ")">>
                   ELSE Get(message, <<"F", "r", "o", "m">>)
                        \o <<" ", "(", "f", "o", "r", "w", "a", "r", "d", "e",
                             "d", ")">>
            /\ pc' = "compose"
            /\ UNCHANGED <<stderr, exitCode>>
    /\ UNCHANGED <<stdin, consumed, dryRun, buffer, message, extraHeaders,
                   lookup, hostnameCalls, stdout, sendmailArgs, sendmailStdin,
                   sendmailExit, readError>>
    /\ UNCHANGED rewriterVars

ComposeWithoutHostnameQuery ==
    /\ pc = "compose"
    /\ extraHeaders' = <<ReceivedHeader(Hostname, Timestamp),
                         OriginalReturnPathHeader(returnPath)>>
    /\ pc' = "strip"
    /\ UNCHANGED <<stdin, consumed, dryRun, buffer, message, returnPath,
                   fromName, lookup, stdout, sendmailArgs, sendmailStdin,
                   sendmailExit, readError, exitCode, hostnameCalls, stderr>>
    /\ UNCHANGED rewriterVars

\* Lines 169-172, getHostname (lines 113-121) included: postconf answers, or
\* it fails and a warning is printed.
Compose ==
    /\ pc = "compose"
    /\ hostnameCalls' = hostnameCalls + 1
    /\ \E postconfOK \in BOOLEAN :
           stderr' = IF postconfOK THEN stderr
                     ELSE Append(stderr, "warning: hostname")
    /\ extraHeaders' = <<ReceivedHeader(Hostname, Timestamp),
                         OriginalReturnPathHeader(returnPath)>>
    /\ pc' = "strip"
    /\ UNCHANGED <<stdin, consumed, dryRun, buffer, message, returnPath,
                   fromName, lookup, stdout, sendmailArgs, sendmailStdin,
                   sendmailExit, readError, exitCode>>
    /\ UNCHANGED rewriterVars

\* Line 174.  The slice expression panics when the value has fewer than two
\* bytes; a Go program that panics exits with status 2.
StripBrackets ==
    /\ pc = "strip"
    /\ IF Len(returnPath) >= 2
       THEN /\ returnPath' = SubSeq(returnPath, 2, Len(returnPath) - 1)
            /\ pc' = "lookup"
            /\ UNCHANGED <<stderr, exitCode>>
       ELSE /\ die("panic: slice bounds out of range", 2)
            /\ UNCHANGED returnPath
    /\ UNCHANGED <<stdin, consumed, dryRun, buffer, message, fromName,
                   extraHeaders, lookup, hostnameCalls, stdout, sendmailArgs,
                   sendmailStdin, sendmailExit, readError>>
    /\ UNCHANGED rewriterVars

\* Lines 175-180: the lookup, and on success the call of headerRewriter on
\* the captured buffer.
Lookup ==
    /\ pc = "lookup"
    /\ \E reply \in Replies :
           LET r == lookupTCP(returnPath, reply)
           IN  /\ lookup' = Append(lookup,
                                   [key |-> returnPath, reply |-> reply,
                                    value |-> r.value, err |-> r.err])
               /\ IF r.err # "nil"
                  THEN /\ die("SRS lookup error", ExTempFail)
                       /\ UNCHANGED <<returnPath, reader>>
                  ELSE /\ stderr' = stderr \o r.warn
                       /\ returnPath' = r.value
                       /\ reader' = buffer
                       /\ pc' = "rewrite"
                       /\ UNCHANGED exitCode
    /\ UNCHANGED <<stdin, consumed, dryRun, buffer, message, fromName,
                   extraHeaders, hostnameCalls, stdout, sendmailArgs,
                   sendmailStdin, sendmailExit, readError, hrBuffer, linenum,
                   hdrEmitted>>

ArgsWithoutCallerArgs ==
    << <<"-", "i">>, <<"-", "f">>, returnPath, <<"-", "F">>, fromName >>

\* Line 181.
Args ==
    << <<"-", "i">>, <<"-", "f">>, returnPath, <<"-", "F">>, fromName >>
    \o FlagArgs

UnreadFromHeaderEnd == SubSeq(stdin, HeaderEnd(stdin) + 1, Len(stdin))

\* The part of stdin nobody has read yet.
Unread == SubSeq(stdin, consumed + 1, Len(stdin))

\* Line 180: what reading mailreader to its end yields.
MailReader == hrBuffer \o Unread

\* Lines 187-192.  io.Copy reads mailreader to its end (whole = TRUE) or stops
\* at the first failing read of stdin, after j bytes of the unread part; its
\* result is not looked at.
DispatchDryRun ==
    /\ pc = "dispatch"
    /\ dryRun
    /\ \E j \in 0..Len(Unread), whole \in BOOLEAN :
           /\ whole => j = Len(Unread)
           /\ consumed' = consumed + j
           /\ stdout' = <<Args, hrBuffer \o SubSeq(Unread, 1, j)>>
           /\ readError' = ~whole
    /\ exitCode' = 0
    /\ pc' = "exit"
    /\ UNCHANGED <<stdin, dryRun, buffer, message, returnPath, fromName,
                   extraHeaders, lookup, hostnameCalls, stderr, sendmailArgs,
                   sendmailStdin, sendmailExit>>
    /\ UNCHANGED rewriterVars

\* Lines 194-196, sendmail cannot be started.
DispatchStartFails ==
    /\ pc = "dispatch"
    /\ ~dryRun
    /\ sendmailArgs' = Append(sendmailArgs, Args)
    /\ die("Error delivering message to sendmail", ExTempFail)
    /\ UNCHANGED <<stdin, consumed, dryRun, buffer, message, returnPath,
                   fromName, extraHeaders, lookup, hostnameCalls, stdout,
                   sendmailStdin, sendmailExit, readError>>
    /\ UNCHANGED rewriterVars

\* Lines 194-198, sendmail started: mailreader is copied to its stdin until
\* it ends (whole = TRUE) or a read of stdin fails after j bytes of the unread
\* part; the pipe is closed and the child, which reads all it is given, exits
\* with childOK.  Run returns the copy error or the child's failure.
DispatchRun ==
    /\ pc = "dispatch"
    /\ ~dryRun
    /\ sendmailArgs' = Append(sendmailArgs, Args)
    /\ \E j \in 0..Len(Unread), whole \in BOOLEAN, childOK \in BOOLEAN :
           /\ whole => j = Len(Unread)
           /\ consumed' = consumed + j
           /\ sendmailStdin' = hrBuffer \o SubSeq(Unread, 1, j)
           /\ readError' = ~whole
           /\ sendmailExit' = IF childOK THEN "ok" ELSE "failed"
           /\ IF whole /\ childOK
              THEN /\ exitCode' = 0
                   /\ pc' = "exit"
                   /\ UNCHANGED stderr
              ELSE die("Error delivering message to sendmail", ExTempFail)
    /\ UNCHANGED <<stdin, dryRun, buffer, message, returnPath, fromName,
                   extraHeaders, lookup, hostnameCalls, stdout>>
    /\ UNCHANGED rewriterVars

----------------------------------------------------------------------------
\* Messages on standard input: header lines, then nothing, or a blank line and
\* a body, every line with the same terminator t.

ReturnPathLine ==
    <<"R", "e", "t", "u", "r", "n", "-", "P", "a", "t", "h", ":", " ", "<",
      "x", ">">>
ReturnPathBareLine ==
    <<"R", "e", "t", "u", "r", "n", "-", "P", "a", "t", "h", ":", " ", "a",
      "@", "b">>
ReturnPathShortLine ==
    <<"R", "e", "t", "u", "r", "n", "-", "P", "a", "t", "h", ":", " ", "x">>
ReturnPathEmptyLine ==
    <<"R", "e", "t", "u", "r", "n", "-", "P", "a", "t", "h", ":">>
BodyLine == <<"b">>

\* Largest number of header lines of a message on standard input.
MaxHeaderLines == 1

MessageHeaderLines ==
    {ReturnPathLine, ReturnPathBareLine, ReturnPathShortLine,
     ReturnPathEmptyLine, EnvelopeLine, FromLine, SubjectLine}

RECURSIVE HeaderBlocks(_, _)
HeaderBlocks(n, t) ==
    IF n = 0 THEN {<<>>}
    ELSE {l \o t \o r : l \in MessageHeaderLines, r \in HeaderBlocks(n - 1, t)}

\* What follows the header lines.
Rests(t) ==
    { <<>>,
      t,
      t \o BodyLine \o t,
      t \o FromLine \o t,
      t \o BodyLine \o t \o FromLine,
      BodyLine \o t }

Messages ==
    UNION {{h \o r : h \in HeaderBlocks(n, t), r \in Rests(t)} :
               n \in 0..MaxHeaderLines, t \in Terminators}
    \cup { ReturnPathLine,
           ReturnPathLine \o <<LF>> \o FromLine,
           FromLine \o <<LF>> \o ReturnPathLine \o <<LF, LF>> \o BodyLine
               \o <<LF>>,
           EnvelopeLine \o CRLF \o FromLine \o CRLF \o ReturnPathLine
               \o CRLF \o SubjectLine \o CRLF \o CRLF \o BodyLine }

Init ==
    /\ stdin \in Messages
    /\ dryRun \in BOOLEAN
    /\ pc = "start"
    /\ consumed = 0
    /\ buffer = <<>>
    /\ message = <<>>
    /\ returnPath = <<>>
    /\ fromName = <<>>
    /\ extraHeaders = <<>>
    /\ reader = <<>>
    /\ hrBuffer = <<>>
    /\ linenum = 0
    /\ hdrEmitted = FALSE
    /\ lookup = <<>>
    /\ hostnameCalls = 0
    /\ stderr = <<>>
    /\ stdout = <<>>
    /\ sendmailArgs = <<>>
    /\ sendmailStdin = <<>>
    /\ sendmailExit = "none"
    /\ readError = FALSE
    /\ exitCode = -1

Next ==
    \/ Capture
    \/ CaptureReadError
    \/ Extract
    \/ Compose
    \/ StripBrackets
    \/ Lookup
    \/ RewriteLine
    \/ RewriteEOF
    \/ DispatchDryRun
    \/ DispatchStartFails
    \/ DispatchRun

Spec == Init /\ [][Next]_vars

----------------------------------------------------------------------------
\* headerRewriter on its own: any input, any header list.

InitRewrite ==
    /\ buffer \in InputsUpTo(MaxLines)
    /\ extraHeaders \in HeaderLists
    /\ reader = buffer
    /\ hrBuffer = <<>>
    /\ linenum = 0
    /\ hdrEmitted = FALSE
    /\ pc = "rewrite"
    /\ stdin = <<>>
    /\ consumed = 0
    /\ dryRun = FALSE
    /\ message = <<>>
    /\ returnPath = <<>>
    /\ fromName = <<>>
    /\ lookup = <<>>
    /\ hostnameCalls = 0
    /\ stderr = <<>>
    /\ stdout = <<>>
    /\ sendmailArgs = <<>>
    /\ sendmailStdin = <<>>
    /\ sendmailExit = "none"
    /\ readError = FALSE
    /\ exitCode = -1

NextRewrite == RewriteLine \/ RewriteEOF

SpecRewrite == InitRewrite /\ [][NextRewrite]_vars

----------------------------------------------------------------------------
\* Properties of headerRewriter, stated against its input (buffer), its header
\* list (extraHeaders) and its result (hrBuffer) once it has returned.

Returned == pc = "dispatch"

\* The lines of s, each with its terminator; a last line may have none.
RECURSIVE LinesOf(_)
LinesOf(s) ==
    IF s = <<>> THEN <<>>
    ELSE LET i == IndexLF(s)
         IN  IF i = 0 THEN <<s>>
             ELSE <<SubSeq(s, 1, i)>> \o LinesOf(SubSeq(s, i + 1, Len(s)))

BeginsEnvelope(l) == HasPrefix(l, <<"F", "r", "o", "m", " ">>)
BeginsFromHeader(l) == HasPrefix(l, <<"F", "r", "o", "m", ":", " ">>)
BeginsFromColon(l) == HasPrefix(l, <<"F", "r", "o", "m", ":">>)
BeginsLowerFrom(l) == HasPrefix(l, <<"f", "r", "o", "m", ":">>)

\* 1 when line 1 of s is an envelope line, else 0.
EnvelopeCount(s) ==
    IF s # <<>> /\ BeginsEnvelope(LinesOf(s)[1]) THEN 1 ELSE 0

\* Number of lines of s that begin with the From: removal prefix.
FromCount(s) == Len(SelectSeq(LinesOf(s), BeginsFromHeader))

\* The terminator line 1 of s calls for.
CanonicalTerminator(s) ==
    IF s # <<>> /\ HasSuffix(LinesOf(s)[1], <<CR, LF>>) THEN <<CR, LF>>
    ELSE <<LF>>

\* Every header of hs followed by the terminator t.
RECURSIVE HeaderBlock(_, _)
HeaderBlock(hs, t) ==
    IF hs = <<>> THEN <<>> ELSE Head(hs) \o t \o HeaderBlock(Tail(hs), t)

\* The lines of ls (the first of which is line n) that the envelope rule and
\* the From: rule keep, concatenated.
RECURSIVE KeptLines(_, _)
KeptLines(ls, n) ==
    IF ls = <<>> THEN <<>>
    ELSE (IF (n = 1 /\ BeginsEnvelope(Head(ls))) \/ BeginsFromHeader(Head(ls))
          THEN <<>> ELSE Head(ls))
         \o KeptLines(Tail(ls), n + 1)

\* C2: the result has (number of headers) + (number of input lines)
\* - (1 if line 1 is an envelope line) - (number of From: lines) lines, for
\* every input, the empty one and unterminated ones included.
C2_LineCount ==
    Returned =>
        Len(LinesOf(hrBuffer)) =
            Len(extraHeaders) + Len(LinesOf(buffer))
            - EnvelopeCount(buffer) - FromCount(buffer)

\* C3: for an input with no envelope line and no From: line the result is the
\* headers, each with the canonical terminator, followed by the input.
C3_RoundTrip ==
    (Returned /\ EnvelopeCount(buffer) = 0 /\ FromCount(buffer) = 0) =>
        hrBuffer = HeaderBlock(extraHeaders, CanonicalTerminator(buffer))
                   \o buffer

\* C4: the empty input yields exactly the headers, each followed by LF.
C4_EmptyInput ==
    (Returned /\ buffer = <<>>) =>
        hrBuffer = HeaderBlock(extraHeaders, <<LF>>)

\* C5: an input whose last line has no terminator is rewritten by the same
\* rules as any other: headers before line 1, an envelope line 1 dropped,
\* From: lines dropped, everything else kept.
C5_PartialLine ==
    (Returned /\ buffer # <<>> /\ buffer[Len(buffer)] # LF) =>
        hrBuffer = HeaderBlock(extraHeaders, CanonicalTerminator(buffer))
                   \o KeptLines(LinesOf(buffer), 1)

\* C6: no line of the result begins with "From:" (with or without a space
\* after the colon), and the lines beginning with "from:" pass unchanged.
C6_FromRemoved ==
    Returned =>
        /\ SelectSeq(LinesOf(hrBuffer), BeginsFromColon) = <<>>
        /\ SelectSeq(LinesOf(hrBuffer), BeginsLowerFrom)
               = SelectSeq(LinesOf(buffer), BeginsLowerFrom)

\* C7: the lines of the result that begin with "From " are exactly those of
\* the input after line 1: line 1 is dropped when it is one, later ones stay.
C7_EnvelopeLineOneOnly ==
    Returned =>
        SelectSeq(LinesOf(hrBuffer), BeginsEnvelope)
            = IF buffer = <<>> THEN <<>>
              ELSE SelectSeq(Tail(LinesOf(buffer)), BeginsEnvelope)

\* C8: whenever the headers have been emitted, the result begins with every
\* header followed by CR LF if line 1 of the input ends with CR LF, and by LF
\* alone otherwise, whatever the terminators of the later lines.
C8_LineEnding ==
    hdrEmitted =>
        HasPrefix(hrBuffer,
                  HeaderBlock(extraHeaders, CanonicalTerminator(buffer)))

\* C8 witness: headers were emitted after a CR LF line 1 followed by a line
\* that ends with a bare LF.
C8_Witness ==
    /\ Returned
    /\ hdrEmitted
    /\ Len(extraHeaders) = 2
    /\ CanonicalTerminator(buffer) = <<CR, LF>>
    /\ Len(LinesOf(buffer)) >= 2
    /\ ~HasSuffix(LinesOf(buffer)[2], <<CR, LF>>)

----------------------------------------------------------------------------
\* Properties of a whole run.

\* The bytes of s after its first blank line.
RECURSIVE AfterBlankLine(_)
AfterBlankLine(ls) ==
    IF ls = <<>> THEN <<>>
    ELSE IF Head(ls) \in {<<LF>>, <<CR, LF>>} THEN HeaderBlock(Tail(ls), <<>>)
    ELSE AfterBlankLine(Tail(ls))

BodyOf(s) == AfterBlankLine(LinesOf(s))

\* C1: the stream assembled for delivery ends with the body of the message,
\* byte for byte, however far the capture read into the body.
C1_BodyPreserved ==
    pc = "dispatch" => HasSuffix(MailReader, BodyOf(stdin))

\* C9: every lookup answered with code 200 returned the payload and no error,
\* every one answered with 500 returned its key and no error, every other
\* code returned an error carrying code and message; and stderr holds one
\* SRS warning per 500 answer and none otherwise.
C9_ResolverMapping ==
    /\ \A i \in 1..Len(lookup) :
           lookup[i].reply.kind = "line" =>
               CASE lookup[i].reply.code = 200 ->
                        /\ lookup[i].value = lookup[i].reply.msg
                        /\ lookup[i].err = "nil"
                 [] lookup[i].reply.code = 500 ->
                        /\ lookup[i].value = lookup[i].key
                        /\ lookup[i].err = "nil"
                 [] OTHER ->
                        /\ lookup[i].err # "nil"
                        /\ lookup[i].err[2] = lookup[i].reply.code
                        /\ lookup[i].err[3] = lookup[i].reply.msg
    /\ Cardinality({i \in 1..Len(stderr) : stderr[i] = "warning: srs"})
           = Cardinality({i \in 1..Len(lookup) :
                              /\ lookup[i].reply.kind = "line"
                              /\ lookup[i].reply.code = 500})

\* C9 witness: a 500 answer with a payload other than the key went by, the
\* key came back and the warning is on stderr.
C9_Witness ==
    /\ pc = "rewrite"
    /\ Len(lookup) = 1
    /\ lookup[1].reply.kind = "line"
    /\ lookup[1].reply.code = 500
    /\ lookup[1].reply.msg # lookup[1].key
    /\ returnPath = lookup[1].key
    /\ \E i \in 1..Len(stderr) : stderr[i] = "warning: srs"

\* The messages that cannot be parsed or have no return-path value.
NoReturnPathMessages ==
    {m \in Messages :
        \/ ~ReadMessage(m).ok
        \/ Get(ReadMessage(m).header, rpHeader) = <<>>}

NoReturnPath == stdin \in NoReturnPathMessages

\* C10: a run on a message without return path never gets past Extract,
\* never calls the SRS service or sendmail, and when it has exited its status
\* is 65, with or without --dry-run.
C10_MissingReturnPath ==
    NoReturnPath =>
        /\ pc \in {"start", "extract", "exit"}
        /\ lookup = <<>>
        /\ sendmailArgs = <<>>
        /\ sendmailStdin = <<>>
        /\ pc = "exit" => exitCode = ExDataErr

\* C10 witness: a dry run on a parsable message that has headers but no
\* return path has exited with 65.
C10_Witness ==
    /\ dryRun
    /\ ReadMessage(stdin).ok
    /\ ReadMessage(stdin).header # <<>>
    /\ \A i \in 1..Len(ReadMessage(stdin).header) :
           ReadMessage(stdin).header[i][1] # rpHeader
    /\ pc = "exit"
    /\ exitCode = ExDataErr

\* The SRS service did not answer, or answered with a code other than 200
\* and 500.
ResolverFailed(reply) ==
    reply.kind # "line" \/ reply.code \notin {200, 500}

\* C11: there is at most one lookup; after a failed one the run has exited
\* with 75 and sendmail was neither invoked nor previewed; after a 500 answer
\* the run goes on to the rewrite and Dispatch.
C11_ResolverFailure ==
    /\ Len(lookup) <= 1
    /\ \A i \in 1..Len(lookup) :
           IF ResolverFailed(lookup[i].reply)
           THEN /\ pc = "exit"
                /\ exitCode = ExTempFail
                /\ sendmailArgs = <<>>
                /\ sendmailStdin = <<>>
                /\ sendmailExit = "none"
                /\ stdout = <<>>
           ELSE /\ pc \in {"rewrite", "dispatch", "exit"}
                /\ pc = "exit" => (stdout # <<>> \/ sendmailArgs # <<>>)

\* C11 witness: a normal run whose lookup got no connection has exited with
\* 75 without invoking sendmail.
C11_Witness ==
    /\ ~dryRun
    /\ pc = "exit"
    /\ exitCode = ExTempFail
    /\ Len(lookup) = 1
    /\ lookup[1].reply.kind = "dial"
    /\ sendmailArgs = <<>>

\* The complete assembled stream: the result of headerRewriter followed by
\* everything of stdin the capture left unread.
Assembled == hrBuffer \o SubSeq(stdin, Len(buffer) + 1, Len(stdin))

\* C12: the sendmail process has received nothing or the complete assembled
\* stream, never a part of it.
C12_NoPartialDelivery ==
    sendmailStdin = <<>> \/ sendmailStdin = Assembled

\* C13: a run during which a read of stdin failed with an error other than
\* end of stream exits with 75.
C13_ReadErrorExits75 ==
    (pc = "exit" /\ readError) => exitCode = ExTempFail

\* C14: a dry run never invokes sendmail, and once it has printed its preview
\* it has exited with 0 and the preview is the argument list followed by the
\* complete assembled stream, the one a normal run feeds to sendmail.
C14_DryRun ==
    dryRun =>
        /\ sendmailArgs = <<>>
        /\ sendmailStdin = <<>>
        /\ sendmailExit = "none"
        /\ stdout # <<>> =>
               /\ pc = "exit"
               /\ exitCode = 0
               /\ stdout = <<Args, Assembled>>

\* What the SRS service's answer amounts to: the payload, or the key on a
\* 500 answer.
ResolverResult(l) == IF l.reply.code = 500 THEN l.key ELSE l.reply.msg

\* The display name: the From header value marked as forwarded, or the
\* placeholder.
ForwardedName ==
    IF Get(message, <<"F", "r", "o", "m">>) = <<>>
    THEN <<"u", "n", "k", "n", "o", "w", "n", " ", "(", "f", "o", "r", "w",
           "a", "r", "d", "e", "d", ")">>
    ELSE Get(message, <<"F", "r", "o", "m">>)
         \o <<" ", "(", "f", "o", "r", "w", "a", "r", "d", "e", "d", ")">>

\* -i, -f result, -F name, then the caller's arguments.
ExpectedArgs ==
    << <<"-", "i">>, <<"-", "f">>, ResolverResult(lookup[1]), <<"-", "F">>,
       ForwardedName >> \o FlagArgs

\* C15 as stated: every sendmail invocation has the expected arguments; a
\* failed sendmail ends the run with 75 and a successful one with 0.
C15_ArgsAndStatus ==
    /\ \A i \in 1..Len(sendmailArgs) : sendmailArgs[i] = ExpectedArgs
    /\ (pc = "exit" /\ sendmailExit = "failed") => exitCode = ExTempFail
    /\ (pc = "exit" /\ sendmailExit = "ok") => exitCode = 0

\* C15 amended: every sendmail invocation has the expected arguments; a
\* failed sendmail ends the run with 75; a successful one ends it with 0,
\* unless a read of stdin failed while the stream was copied to sendmail, and
\* then with 75.
C15_ArgsAndStatusAmended ==
    /\ \A i \in 1..Len(sendmailArgs) : sendmailArgs[i] = ExpectedArgs
    /\ (pc = "exit" /\ sendmailExit = "failed") => exitCode = ExTempFail
    /\ (pc = "exit" /\ sendmailExit = "ok") =>
           exitCode = IF readError THEN ExTempFail ELSE 0

\* C15 witness: after a 500 answer and with a From header in the message,
\* sendmail ran with the key as sender, succeeded, and the run exited with 0.
C15_Witness ==
    /\ pc = "exit"
    /\ exitCode = 0
    /\ sendmailExit = "ok"
    /\ Len(sendmailArgs) = 1
    /\ lookup[1].reply.code = 500
    /\ lookup[1].reply.msg # lookup[1].key
    /\ sendmailArgs[1][3] = lookup[1].key
    /\ Get(message, <<"F", "r", "o", "m">>) # <<>>
    /\ sendmailArgs[1][6] = <<"r">>

\* C16: what the capture holds is a prefix of stdin; from the end of the
\* capture until Dispatch nothing more is read from stdin, and the captured
\* buffer followed by the unread tail is stdin; headerRewriter reads from the
\* captured buffer; the assembled stream is its result followed by the unread
\* tail, and that is what a successful normal run has fed to sendmail.
C16_SingleConsumption ==
    /\ HasPrefix(stdin, buffer)
    /\ pc \in {"extract", "compose", "strip", "lookup", "rewrite", "dispatch"}
           => /\ consumed = Len(buffer)
              /\ buffer \o Unread = stdin
    /\ pc = "rewrite" => HasSuffix(buffer, reader)
    /\ pc = "dispatch" =>
           MailReader = hrBuffer \o SubSeq(stdin, Len(buffer) + 1, Len(stdin))
    /\ (pc = "exit" /\ exitCode = 0 /\ ~dryRun) =>
           /\ sendmailStdin
                  = hrBuffer \o SubSeq(stdin, Len(buffer) + 1, Len(stdin))
           /\ consumed = Len(stdin)

\* C16 witness: Dispatch is reached with a capture that ends inside the body:
\* past the blank line, before the end of stdin.
C16_Witness ==
    /\ pc = "dispatch"
    /\ Len(buffer) > HeaderEnd(stdin)
    /\ Len(buffer) < Len(stdin)
    /\ BodyOf(stdin) # <<>>
    /\ hrBuffer # <<>>

\* v without one leading "<" and one trailing ">", every other byte kept.
WithoutBrackets(v) ==
    LET a == IF v # <<>> /\ Head(v) = "<" THEN Tail(v) ELSE v
    IN  IF a # <<>> /\ a[Len(a)] = ">" THEN SubSeq(a, 1, Len(a) - 1) ELSE a

\* C17: the key of every lookup is the return-path value without its
\* brackets, no other byte of the value removed.
C17_KeyIsBracketStripped ==
    \A i \in 1..Len(lookup) :
        lookup[i].key = WithoutBrackets(Get(message, rpHeader))

BeginsReceived(l) ==
    HasPrefix(l, <<"R", "e", "c", "e", "i", "v", "e", "d", ":">>)
BeginsOriginalReturnPath(l) ==
    HasPrefix(l, <<"X", "-", "O", "r", "i", "g", "i", "n", "a", "l", "-", "R",
                   "e", "t", "u", "r", "n", "-", "P", "a", "t", "h", ":">>)

\* C18: at Dispatch the header list is the Received header and the
\* X-Original-Return-Path header carrying the key of the lookup; the assembled
\* stream begins with the two, in that order, and holds each once.
C18_SynthesizedHeaders ==
    pc = "dispatch" =>
        /\ extraHeaders
               = <<ReceivedHeader(Hostname, Timestamp),
                   OriginalReturnPathHeader(lookup[1].key)>>
        /\ HasPrefix(MailReader,
                     HeaderBlock(extraHeaders, CanonicalTerminator(buffer)))
        /\ Len(SelectSeq(LinesOf(MailReader), BeginsReceived)) = 1
        /\ Len(SelectSeq(LinesOf(MailReader), BeginsOriginalReturnPath)) = 1

\* C19 as stated: the hostname is queried only after the lookup has returned
\* successfully, so never in a run whose lookup failed.
C19_HostnameAfterResolve ==
    hostnameCalls > 0 => (Len(lookup) = 1 /\ lookup[1].err = "nil")

\* C19 amended: the phases run in the order Capture, Extract, Compose,
\* Resolve, Assemble, Dispatch, each at most once: the hostname is queried
\* once, after Extract and before the lookup (so also in a run whose lookup
\* fails); the rewrite starts only after a successful lookup; the preview or
\* sendmail invocation comes only after the rewrite, and the run then exits.
C19_PhaseOrder ==
    /\ hostnameCalls <= 1
    /\ Len(lookup) <= 1
    /\ Len(sendmailArgs) <= 1
    /\ pc \in {"start", "extract", "compose"} => hostnameCalls = 0
    /\ pc \in {"strip", "lookup", "rewrite", "dispatch"} => hostnameCalls = 1
    /\ pc \in {"start", "extract", "compose", "strip", "lookup"}
           => (lookup = <<>> /\ linenum = 0)
    /\ lookup # <<>> => hostnameCalls = 1
    /\ linenum > 0 => (Len(lookup) = 1 /\ lookup[1].err = "nil")
    /\ pc \in {"rewrite", "dispatch"}
           => (Len(lookup) = 1 /\ lookup[1].err = "nil")
    /\ pc # "exit" => (stdout = <<>> /\ sendmailArgs = <<>>)
    /\ (stdout # <<>> \/ sendmailArgs # <<>>) => linenum > 0

\* C19 witness: a run whose lookup failed has exited with 75 after one
\* hostname query.
C19_Witness ==
    /\ pc = "exit"
    /\ exitCode = ExTempFail
    /\ Len(lookup) = 1
    /\ lookup[1].err # "nil"
    /\ hostnameCalls = 1

\* C20: a run on a parsable message with a non-empty return-path value ends
\* with status 0, 65 or 75.
C20_DefinedExitCodes ==
    (pc = "exit" /\ ~NoReturnPath) => exitCode \in {0, ExDataErr, ExTempFail}

====
